---- MODULE Spec2Model ----
(***************************************************************************)
(* The notebook "rnns/1 RNN architecture overview.ipynb" as a state        *)
(* machine: a single kernel executes the notebook's code cells one at a    *)
(* time, statement by statement.  The state is the Python environment the  *)
(* cells act on (installed packages), the kernel namespace (imported names *)
(* and the binding of `model`), the record of executions and the tables    *)
(* written to standard output.                                             *)
(*                                                                         *)
(* The table printer and the layer constructors are external packages.     *)
(* What the notebook holds of them is the recorded output of each printing *)
(* cell; the printer is modelled by exactly these recorded input/output    *)
(* pairs.  Text is transcribed column by column: a number is a natural, a  *)
(* percentage "92.0%" is the number of tenths (920), the rule              *)
(* "-------------------" of a layer row is the flag `rule`.                *)
(***************************************************************************)
EXTENDS Integers, Sequences, FiniteSets, TLC

\* Bound of the model: how many cell executions one kernel session makes.
MaxExecutions == 4

(***************************************************************************)
(* Layer descriptors, as the cells' sources write them.  An argument the   *)
(* source leaves out is "unset" (a string argument) or <<>> (input_shape). *)
(***************************************************************************)
Layer(kind, units, rs, shape, act, wrap) ==
    [kind |-> kind, units |-> units, return_sequences |-> rs,
     input_shape |-> shape, activation |-> act, wrapper |-> wrap]

SimpleRNNStack ==
    << Layer("SimpleRNN", 32, "False", <<10, 26>>, "unset", "none"),
       Layer("Dense", 5, "unset", <<>>, "softmax", "none") >>

LSTMStack ==
    << Layer("LSTM", 32, "unset", <<10, 26>>, "unset", "none"),
       Layer("Dense", 5, "unset", <<>>, "softmax", "none") >>

BidirectionalLSTMStack ==
    << Layer("LSTM", 32, "True", <<10, 26>>, "unset", "Bidirectional"),
       Layer("LSTM", 32, "unset", <<>>, "unset", "Bidirectional"),
       Layer("Dense", 5, "unset", <<>>, "softmax", "none") >>

StackedLSTMStack ==
    << Layer("LSTM", 32, "True", <<10, 26>>, "unset", "none"),
       Layer("LSTM", 32, "unset", <<>>, "unset", "none"),
       Layer("Dense", 5, "unset", <<>>, "softmax", "none") >>

StackedGRUStack ==
    << Layer("GRU", 32, "True", <<10, 26>>, "unset", "none"),
       Layer("GRU", 32, "unset", <<>>, "unset", "none"),
       Layer("Dense", 5, "unset", <<>>, "softmax", "none") >>

(***************************************************************************)
(* The code cells and their statements, in source order.                   *)
(***************************************************************************)
ModelCells == {"rnn", "lstm", "bilstm", "lstm2", "gru"}

CodeCells == {"pip", "import"} \cup ModelCells

Stmt(op, module, names, stack) ==
    [op |-> op, module |-> module, names |-> names, stack |-> stack]

PipProgram == << Stmt("shell", "keras_sequential_ascii", {}, <<>>) >>

ImportProgram ==
    << Stmt("import", "keras", {"Sequential"}, <<>>),
       Stmt("import", "keras",
            {"Flatten", "SimpleRNN", "Dense", "Dropout", "LSTM", "GRU",
             "Bidirectional"}, <<>>),
       Stmt("import", "keras_sequential_ascii",
            {"sequential_model_to_ascii_printout"}, <<>>) >>

PrinterName == "sequential_model_to_ascii_printout"

Construct(names, stack) == Stmt("assign", "", names, stack)

PrintStmt == Stmt("call", "", {PrinterName}, <<>>)

SimpleRNNProgram ==
    << Construct({"Sequential", "SimpleRNN", "Dense"}, SimpleRNNStack),
       PrintStmt >>

LSTMProgram ==
    << Construct({"Sequential", "LSTM", "Dense"}, LSTMStack), PrintStmt >>

\* Mutant: the printer call of the Bidirectional cell is not a comment.
BidirectionalProgramPrinting ==
    << Construct({"Sequential", "Bidirectional", "LSTM", "Dense"},
                 BidirectionalLSTMStack),
       PrintStmt >>

\* The printer call of this cell is a comment: the cell has one statement.
BidirectionalProgram ==
    << Construct({"Sequential", "Bidirectional", "LSTM", "Dense"},
                 BidirectionalLSTMStack) >>

\* Mutant: the cell prints `model` before it rebinds it.
StackedLSTMProgramPrintFirst ==
    << PrintStmt,
       Construct({"Sequential", "LSTM", "Dense"}, StackedLSTMStack) >>

StackedLSTMProgram ==
    << Construct({"Sequential", "LSTM", "Dense"}, StackedLSTMStack),
       PrintStmt >>

StackedGRUProgram ==
    << Construct({"Sequential", "GRU", "Dense"}, StackedGRUStack),
       PrintStmt >>

Program(c) ==
    CASE c = "pip"    -> PipProgram
      [] c = "import" -> ImportProgram
      [] c = "rnn"    -> SimpleRNNProgram
      [] c = "lstm"   -> LSTMProgram
      [] c = "bilstm" -> BidirectionalProgram
      [] c = "lstm2"  -> StackedLSTMProgram
      [] c = "gru"    -> StackedGRUProgram

(***************************************************************************)
(* The recorded outputs.  A table is its header, the number of blank lines *)
(* below the header, and its rows.                                         *)
(***************************************************************************)
\* Mutant: the two weight columns change places.
HeaderSwapped == << "OPERATION", "DATA DIMENSIONS", "WEIGHTS(%)", "WEIGHTS(N)" >>

Header == << "OPERATION", "DATA DIMENSIONS", "WEIGHTS(N)", "WEIGHTS(%)" >>

DataRow(op, dims) ==
    [op |-> op, sym |-> "#####", rule |-> FALSE, dims |-> dims,
     n |-> <<>>, pct |-> <<>>]

LayerRow(op, sym, n, pct) ==
    [op |-> op, sym |-> sym, rule |-> TRUE, dims |-> <<>>,
     n |-> <<n>>, pct |-> <<pct>>]

Table(header, rows) == [header |-> header, blank |-> 1, rows |-> rows]

SimpleRNNOutput ==
    Table(Header,
          << DataRow("Input", <<10, 26>>),
             LayerRow("SimpleRNN", "?????", 1888, 920),
             DataRow("tanh", <<32>>),
             LayerRow("Dense", "XXXXX", 165, 80),
             DataRow("softmax", <<5>>) >>)

\* Mutant: the percentages are cut, not rounded, to one decimal place.
LSTMOutputTruncated ==
    Table(Header,
          << DataRow("Input", <<10, 26>>),
             LayerRow("LSTM", "LLLLL", 7552, 978),
             DataRow("tanh", <<32>>),
             LayerRow("Dense", "XXXXX", 165, 21),
             DataRow("softmax", <<5>>) >>)

LSTMOutput ==
    Table(Header,
          << DataRow("Input", <<10, 26>>),
             LayerRow("LSTM", "LLLLL", 7552, 979),
             DataRow("tanh", <<32>>),
             LayerRow("Dense", "XXXXX", 165, 21),
             DataRow("softmax", <<5>>) >>)

\* Mutant: the second LSTM's output keeps the time dimension.
StackedLSTMOutputAllSequences ==
    Table(Header,
          << DataRow("Input", <<10, 26>>),
             LayerRow("LSTM", "LLLLL", 7552, 471),
             DataRow("tanh", <<10, 32>>),
             LayerRow("LSTM", "LLLLL", 8320, 519),
             DataRow("tanh", <<10, 32>>),
             LayerRow("Dense", "XXXXX", 165, 10),
             DataRow("softmax", <<5>>) >>)

StackedLSTMOutput ==
    Table(Header,
          << DataRow("Input", <<10, 26>>),
             LayerRow("LSTM", "LLLLL", 7552, 471),
             DataRow("tanh", <<10, 32>>),
             LayerRow("LSTM", "LLLLL", 8320, 519),
             DataRow("tanh", <<32>>),
             LayerRow("Dense", "XXXXX", 165, 10),
             DataRow("softmax", <<5>>) >>)

\* Mutant: a GRU with a second bias vector per gate,
\* 3 * units * (input_dim + units + 2) weights.
StackedGRUOutputTwoBiases ==
    Table(Header,
          << DataRow("Input", <<10, 26>>),
             LayerRow("GRU", "LLLLL", 5760, 470),
             DataRow("tanh", <<10, 32>>),
             LayerRow("GRU", "LLLLL", 6336, 517),
             DataRow("tanh", <<32>>),
             LayerRow("Dense", "XXXXX", 165, 13),
             DataRow("softmax", <<5>>) >>)

StackedGRUOutput ==
    Table(Header,
          << DataRow("Input", <<10, 26>>),
             LayerRow("GRU", "LLLLL", 5664, 469),
             DataRow("tanh", <<10, 32>>),
             LayerRow("GRU", "LLLLL", 6240, 517),
             DataRow("tanh", <<32>>),
             LayerRow("Dense", "XXXXX", 165, 14),
             DataRow("softmax", <<5>>) >>)

\* What the notebook records for a stack nobody printed: nothing.
NoOutput == [header |-> <<>>, blank |-> 0, rows |-> <<>>]

\* The input/output pairs of the printer the notebook records.
RecordedOutput(stack) ==
    CASE stack = SimpleRNNStack   -> SimpleRNNOutput
      [] stack = LSTMStack        -> LSTMOutput
      [] stack = StackedLSTMStack -> StackedLSTMOutput
      [] stack = StackedGRUStack  -> StackedGRUOutput
      [] OTHER                    -> NoOutput

\* Mutant: the printer counts a layer's weights without its bias vector.
PrintoutWithoutBias(stack) ==
    LET t == RecordedOutput(stack)
    IN  [t EXCEPT !.rows =
            [r \in DOMAIN t.rows |->
                IF t.rows[r].rule
                THEN [t.rows[r] EXCEPT !.n = << t.rows[r].n[1] - stack[r \div 2].units >>]
                ELSE t.rows[r]]]

\* Mutant: the printer gives the last layer's activation no row of its own.
PrintoutWithoutLastActivation(stack) ==
    LET t == RecordedOutput(stack)
    IN  [t EXCEPT !.rows = SubSeq(t.rows, 1, Len(t.rows) - 1)]

\* The printer.
sequential_model_to_ascii_printout(stack) == RecordedOutput(stack)

(***************************************************************************)
(* The kernel.                                                             *)
(***************************************************************************)
VARIABLES
    installed,        \* packages of the Python environment
    names,            \* imported names bound in the kernel namespace
    model,            \* <<>>, or <<[stack, id]>>: the object `model` names
    running,          \* the cell being executed, or "idle"
    pc,               \* index of the next statement of the running cell
    execution_count,  \* the kernel's execution counter
    runs,             \* runs[n]: the n-th execution: its cell, its outcome,
                      \* and the error and the statement that raised it
    stdout            \* the printer calls made, with the table each wrote

vars == << installed, names, model, running, pc, execution_count, runs, stdout >>

\* "# if you need to install that": the package may or may not be there.
Init ==
    /\ installed \in { {"keras"}, {"keras", "keras_sequential_ascii"} }
    /\ names = {}
    /\ model = <<>>
    /\ running = "idle"
    /\ pc = 0
    /\ execution_count = 0
    /\ runs = <<>>
    /\ stdout = <<>>

\* Mutant: the kernel starts a request while a cell is still executing.
KernelAlwaysReady == TRUE

\* The kernel takes one execute request at a time.
KernelIdle == running = "idle"

Execute(c) ==
    /\ KernelIdle
    /\ execution_count < MaxExecutions
    /\ running' = c
    /\ pc' = 1
    /\ execution_count' = execution_count + 1
    /\ runs' = Append(runs, [cell |-> c, status |-> "running", error |-> "", at |-> 0])
    /\ UNCHANGED << installed, names, model, stdout >>

Current == Program(running)[pc]

\* After a statement: the next one, or the cell is done.
NextStatement ==
    IF pc < Len(Program(running))
    THEN /\ pc' = pc + 1
         /\ UNCHANGED << running, runs >>
    ELSE /\ pc' = 0
         /\ running' = "idle"
         /\ runs' = [runs EXCEPT ![execution_count].status = "ok"]

\* Mutant: the cell catches the error and goes on with its next statement.
Swallowed(error) ==
    IF pc < Len(Program(running))
    THEN /\ pc' = pc + 1
         /\ running' = running
         /\ runs' = [runs EXCEPT ![execution_count].error = error,
                                 ![execution_count].at = pc]
    ELSE /\ pc' = 0
         /\ running' = "idle"
         /\ runs' = [runs EXCEPT ![execution_count].status = "error",
                                 ![execution_count].error = error,
                                 ![execution_count].at = pc]

\* No cell catches anything: an error ends the cell where it is raised.
Unhandled(error) ==
    /\ pc' = 0
    /\ running' = "idle"
    /\ runs' = [runs EXCEPT ![execution_count].status = "error",
                            ![execution_count].error = error,
                            ![execution_count].at = pc]

AtStatement(op) == running # "idle" /\ Current.op = op

\* !pip install -q keras_sequential_ascii : the shell command may install
\* the package or fail; either way the cell itself completes.
Shell ==
    /\ AtStatement("shell")
    /\ \E done \in BOOLEAN :
          installed' = IF done THEN installed \cup {Current.module}
                               ELSE installed
    /\ NextStatement
    /\ UNCHANGED << names, model, execution_count, stdout >>

\* from <module> import <names>
Import ==
    /\ AtStatement("import")
    /\ IF Current.module \in installed
       THEN /\ names' = names \cup Current.names
            /\ NextStatement
       ELSE /\ names' = names
            /\ Unhandled("ModuleNotFoundError")
    /\ UNCHANGED << installed, model, execution_count, stdout >>

\* model = Sequential([...]) : binds `model` to a new object.
Assign ==
    /\ AtStatement("assign")
    /\ IF Current.names \subseteq names
       THEN \/ /\ model' = << [stack |-> Current.stack, id |-> execution_count] >>
               /\ NextStatement
            \/ /\ model' = model
               /\ Unhandled("FrameworkError")
       ELSE /\ model' = model
            /\ Unhandled("NameError")
    /\ UNCHANGED << installed, names, execution_count, stdout >>

\* sequential_model_to_ascii_printout(model)
Call ==
    /\ AtStatement("call")
    /\ IF Current.names \subseteq names /\ model # <<>>
       THEN \/ /\ stdout' = Append(stdout,
                      [run |-> execution_count, cell |-> running,
                       arg |-> model[1],
                       table |-> sequential_model_to_ascii_printout(model[1].stack)])
               /\ NextStatement
            \/ /\ stdout' = stdout
               /\ Unhandled("FrameworkError")
       ELSE /\ stdout' = stdout
            /\ Unhandled("NameError")
    /\ UNCHANGED << installed, names, model, execution_count >>

Next ==
    \/ \E c \in CodeCells : Execute(c)
    \/ Shell
    \/ Import
    \/ Assign
    \/ Call

Spec == Init /\ [][Next]_vars

(***************************************************************************)
(* Properties of the executions.                                           *)
(***************************************************************************)
Printed == DOMAIN stdout

\* The construct statement of a model cell is its first statement.
OwnStack(c) == Program(c)[1].stack

HasPrinterCall(c) == \E k \in DOMAIN Program(c) : Program(c)[k].op = "call"

PrintsOf(n) == { i \in Printed : stdout[i].run = n }

\* C1: every printed table starts with the header row of exactly four
\* columns, in the order OPERATION, DATA DIMENSIONS, WEIGHTS(N), WEIGHTS(%).
C1_HeaderRow ==
    \A i \in Printed :
        /\ Len(stdout[i].table.header) = 4
        /\ stdout[i].table.header[1] = "OPERATION"
        /\ stdout[i].table.header[2] = "DATA DIMENSIONS"
        /\ stdout[i].table.header[3] = "WEIGHTS(N)"
        /\ stdout[i].table.header[4] = "WEIGHTS(%)"

\* The SimpleRNN cell and the GRU cell have both printed their table.
C1_Witness ==
    /\ \E i \in Printed : stdout[i].cell = "rnn"
    /\ \E i \in Printed : stdout[i].cell = "gru"

\* C2: a printer call is made after the constructor of the same execution
\* has bound `model`, at most once in an execution and exactly once in an
\* execution that completes, and it receives the object that execution
\* bound, whose layer stack is the one written in the cell.
C2_PrinterAfterOwnConstructor ==
    /\ \A i \in Printed :
          /\ stdout[i].arg.id = stdout[i].run
          /\ runs[stdout[i].run].cell = stdout[i].cell
          /\ stdout[i].arg.stack = OwnStack(stdout[i].cell)
    /\ \A n \in DOMAIN runs :
          /\ Cardinality(PrintsOf(n)) <= 1
          /\ (runs[n].status = "ok" /\ HasPrinterCall(runs[n].cell))
                => Cardinality(PrintsOf(n)) = 1

\* The stacked-LSTM cell printed while an earlier execution of another
\* model cell had left its own `model` behind.
C2_Witness ==
    \E i \in Printed :
        /\ stdout[i].cell = "lstm2"
        /\ \E n \in 1..(stdout[i].run - 1) :
              runs[n].cell \in {"lstm", "bilstm"} /\ runs[n].status = "ok"

AtMostOneRunning ==
    Cardinality({ n \in DOMAIN runs : runs[n].status = "running" }) <= 1

RunsToCompletion ==
    \A n \in DOMAIN runs :
        runs[n].status = "running" => (n = execution_count /\ running = runs[n].cell)

\* C3 as stated: at most one cell executes at a time, each runs to
\* completion before another starts, and no step of any cell changes
\* anything but the kernel's bindings: the environment's files stay as
\* they are.
C3_NoPersistedState ==
    /\ [](AtMostOneRunning /\ RunsToCompletion)
    /\ [][installed' = installed]_vars

\* C3 amended: at most one cell executes at a time and runs to completion
\* before another starts; only the pip cell changes the installed packages,
\* and it changes no kernel binding; every other cell leaves the installed
\* packages alone.
C3_OnlyPipPersists ==
    /\ [](AtMostOneRunning /\ RunsToCompletion)
    /\ [][ /\ (running # "pip" => installed' = installed)
           /\ (running = "pip" => names' = names /\ model' = model) ]_vars

\* The import cell failed for want of the package, the pip cell installed
\* it, the import cell then succeeded, and a model cell is running.
C3_Witness ==
    /\ "keras_sequential_ascii" \in installed
    /\ running \in ModelCells
    /\ \E a, b, c \in DOMAIN runs :
          /\ a < b /\ b < c
          /\ runs[a].cell = "import" /\ runs[a].error = "ModuleNotFoundError"
          /\ runs[b].cell = "pip" /\ runs[b].status = "ok"
          /\ runs[c].cell = "import" /\ runs[c].status = "ok"

RaisedAt(n, op) ==
    /\ runs[n].error # ""
    /\ runs[n].at \in DOMAIN Program(runs[n].cell)
    /\ Program(runs[n].cell)[runs[n].at].op = op

\* C4: an error ends the execution of its cell as an unhandled error: the
\* execution is over with status "error" at the statement that raised.
\* When the constructor raised, that execution bound no `model` and printed
\* no table; when the printer raised, it printed no table.
C4_UnhandledErrorEndsCell ==
    \A n \in DOMAIN runs :
        runs[n].error # "" =>
            /\ runs[n].status = "error"
            /\ (n = execution_count => running = "idle")
            /\ RaisedAt(n, "assign") =>
                  /\ PrintsOf(n) = {}
                  /\ (model # <<>> => model[1].id # n)
            /\ RaisedAt(n, "call") => PrintsOf(n) = {}

\* The constructor of a printing cell raised while an earlier cell's
\* `model` and the printer were both bound.
C4_Witness ==
    \E n \in DOMAIN runs :
        /\ runs[n].error = "FrameworkError"
        /\ RaisedAt(n, "assign")
        /\ HasPrinterCall(runs[n].cell)
        /\ model # <<>>
        /\ PrinterName \in names
        /\ n = execution_count

\* The table recorded in the notebook under each printing cell.
OutputOf(c) ==
    CASE c = "rnn"   -> SimpleRNNOutput
      [] c = "lstm"  -> LSTMOutput
      [] c = "lstm2" -> StackedLSTMOutput
      [] c = "gru"   -> StackedGRUOutput
      [] OTHER       -> NoOutput

\* C10: whatever ran before, a printing cell prints the table recorded under
\* it, two executions of one cell print the same table, and the model of
\* the Bidirectional-LSTM cell is in no printed table.
C10_TableIndependentOfHistory ==
    /\ \A i \in Printed :
          /\ stdout[i].table = OutputOf(stdout[i].cell)
          /\ stdout[i].table # NoOutput
          /\ stdout[i].arg.stack # BidirectionalLSTMStack
          /\ stdout[i].cell # "bilstm"
    /\ \A i, j \in Printed :
          stdout[i].cell = stdout[j].cell => stdout[i].table = stdout[j].table

\* The stacked-LSTM cell printed twice, the Bidirectional cell having bound
\* `model` in between.
C10_Witness ==
    \E i, j \in Printed :
        /\ stdout[i].cell = "lstm2" /\ stdout[j].cell = "lstm2"
        /\ \E n \in DOMAIN runs :
              /\ stdout[i].run < n /\ n < stdout[j].run
              /\ runs[n].cell = "bilstm" /\ runs[n].status = "ok"

(***************************************************************************)
(* Properties of the printed tables, against the layer configuration the   *)
(* printer was given.  Row 1 is the Input row; layer k of the stack has    *)
(* its layer row at 2k and its activation's data row at 2k+1.              *)
(***************************************************************************)
Recurrent == {"SimpleRNN", "LSTM", "GRU"}

Gates(kind) ==
    CASE kind = "SimpleRNN" -> 1
      [] kind = "LSTM"      -> 4
      [] kind = "GRU"       -> 3

ParamCount(layer, input_dim) ==
    IF layer.kind \in Recurrent
    THEN Gates(layer.kind) * layer.units * (input_dim + layer.units + 1)
    ELSE input_dim * layer.units + layer.units

LastDim(dims) == dims[Len(dims)]

RECURSIVE SumSeq(_)
SumSeq(q) == IF q = <<>> THEN 0 ELSE q[1] + SumSeq(Tail(q))

\* A table of the shape the other properties read: 2k+1 rows, weights on
\* the even rows, dimensions on the odd rows.
WellShaped(stack, t) ==
    /\ Len(t.rows) = 2 * Len(stack) + 1
    /\ \A r \in DOMAIN t.rows :
          IF r % 2 = 0
          THEN Len(t.rows[r].n) = 1 /\ Len(t.rows[r].pct) = 1
          ELSE Len(t.rows[r].dims) >= 1

Counts(t) == [k \in 1..(Len(t.rows) \div 2) |-> t.rows[2 * k].n[1]]

Percents(t) == [k \in 1..(Len(t.rows) \div 2) |-> t.rows[2 * k].pct[1]]

ExpectedCounts(c) ==
    CASE c = "rnn"   -> << 1888, 165 >>
      [] c = "lstm"  -> << 7552, 165 >>
      [] c = "lstm2" -> << 7552, 8320, 165 >>
      [] c = "gru"   -> << 5664, 6240, 165 >>
      [] OTHER       -> << >>

\* C5: in every printed table WEIGHTS(N) of a layer is its parameter count:
\* g * units * (input_dim + units + 1) for a recurrent layer (g = 1, 4, 3
\* for SimpleRNN, LSTM, GRU), in_dim * out_dim + out_dim for Dense, the
\* input dimension being the last data dimension of the row above; the
\* counts are 1888/165, 7552/165, 7552/8320/165 and 5664/6240/165.
C5_WeightCounts ==
    \A i \in Printed :
        LET s == stdout[i].arg.stack
            t == stdout[i].table
        IN  /\ WellShaped(s, t)
            /\ \A k \in DOMAIN s :
                  t.rows[2 * k].n[1] = ParamCount(s[k], LastDim(t.rows[2 * k - 1].dims))
            /\ Counts(t) = ExpectedCounts(stdout[i].cell)

\* The SimpleRNN, stacked-LSTM and GRU cells have all printed.
C5_Witness ==
    \A c \in {"rnn", "lstm2", "gru"} : \E i \in Printed : stdout[i].cell = c

\* 100 * n / total rounded to one decimal place, in tenths of a percent.
RoundedTenths(n, total) == (2000 * n + total) \div (2 * total)

ExpectedTotal(c) ==
    CASE c = "rnn"   -> 2053
      [] c = "lstm"  -> 7717
      [] c = "lstm2" -> 16037
      [] c = "gru"   -> 12069
      [] OTHER       -> 0

\* C6: in every printed table WEIGHTS(%) of a layer is 100 * WEIGHTS(N) / T
\* rounded to one decimal place, T the sum of the table's WEIGHTS(N) (2053,
\* 7717, 16037, 12069), and the percentages of a table add up to 100.0.
C6_WeightPercents ==
    \A i \in Printed :
        LET s == stdout[i].arg.stack
            t == stdout[i].table
            total == SumSeq(Counts(t))
        IN  /\ WellShaped(s, t)
            /\ total = ExpectedTotal(stdout[i].cell)
            /\ total > 0
            /\ \A k \in DOMAIN s :
                  t.rows[2 * k].pct[1] = RoundedTenths(t.rows[2 * k].n[1], total)
            /\ SumSeq(Percents(t)) = 1000

\* The single-LSTM, stacked-LSTM and GRU cells have all printed.
C6_Witness ==
    \A c \in {"lstm", "lstm2", "gru"} : \E i \in Printed : stdout[i].cell = c

ReturnsSequences(layer) == layer.return_sequences = "True"

\* The data dimensions after a layer whose input has dimensions `dims`.
OutputDims(layer, dims) ==
    IF layer.kind \in Recurrent /\ ReturnsSequences(layer)
    THEN << dims[1], layer.units >>
    ELSE << layer.units >>

\* C7: the Input row is the declared input_shape (10, 26); the row after a
\* recurrent layer of 32 units is (10, 32) with return_sequences=True and
\* (32) with False or the default; the last row, after Dense(5), is (5).
C7_DataDimensions ==
    \A i \in Printed :
        LET s == stdout[i].arg.stack
            t == stdout[i].table
        IN  /\ WellShaped(s, t)
            /\ t.rows[1].dims = s[1].input_shape
            /\ t.rows[1].dims = << 10, 26 >>
            /\ \A k \in DOMAIN s :
                  /\ t.rows[2 * k + 1].dims = OutputDims(s[k], t.rows[2 * k - 1].dims)
                  /\ (s[k].kind \in Recurrent /\ s[k].units = 32) =>
                        t.rows[2 * k + 1].dims =
                            IF s[k].return_sequences = "True"
                            THEN << 10, 32 >> ELSE << 32 >>
            /\ s[Len(s)].kind = "Dense"
            /\ t.rows[Len(t.rows)].dims = << 5 >>

\* Tables printed for return_sequences=False (SimpleRNN), for the default
\* (single LSTM) and for True followed by the default (stacked LSTM).
C7_Witness ==
    \A c \in {"rnn", "lstm", "lstm2"} : \E i \in Printed : stdout[i].cell = c

ActivationOf(layer) ==
    IF layer.activation # "unset" THEN layer.activation
    ELSE IF layer.kind \in Recurrent THEN "tanh" ELSE "linear"

\* C8: below the header a table for k layers has exactly 2k+1 rows, data
\* rows and layer rows in turn, beginning with the Input data row; the layer
\* rows name the layers in the order given to Sequential and are the only
\* rows with WEIGHTS(N) and WEIGHTS(%); each is directly followed by the
\* data row of its activation (tanh after SimpleRNN, LSTM, GRU; softmax
\* after Dense), which has no weight values.
C8_RowStructure ==
    \A i \in Printed :
        LET s == stdout[i].arg.stack
            t == stdout[i].table
        IN  /\ Len(t.rows) = 2 * Len(s) + 1
            /\ t.rows[1].op = "Input"
            /\ \A r \in DOMAIN t.rows :
                  IF r % 2 = 1
                  THEN /\ ~t.rows[r].rule
                       /\ t.rows[r].n = <<>> /\ t.rows[r].pct = <<>>
                       /\ Len(t.rows[r].dims) >= 1
                  ELSE /\ t.rows[r].rule
                       /\ Len(t.rows[r].n) = 1 /\ Len(t.rows[r].pct) = 1
                       /\ t.rows[r].dims = <<>>
            /\ \A k \in DOMAIN s :
                  /\ t.rows[2 * k].op = s[k].kind
                  /\ t.rows[2 * k + 1].op = ActivationOf(s[k])
                  /\ t.rows[2 * k + 1].op =
                        IF s[k].kind \in Recurrent THEN "tanh" ELSE "softmax"

\* The single-LSTM (k = 2) and stacked-LSTM (k = 3) cells have both printed.
C8_Witness ==
    /\ \E i \in Printed : stdout[i].cell = "lstm" /\ Len(stdout[i].table.rows) = 5
    /\ \E i \in Printed : stdout[i].cell = "lstm2" /\ Len(stdout[i].table.rows) = 7

\* A stack with every LSTM descriptor replaced by a GRU descriptor with the
\* same arguments.
LSTMToGRU(stack) ==
    [k \in DOMAIN stack |->
        IF stack[k].kind = "LSTM" THEN [stack[k] EXCEPT !.kind = "GRU"]
                                  ELSE stack[k]]

\* Two rows that differ at most in the layer name, the weight count of a
\* recurrent layer and the percentage.
SameButLayer(a, b) ==
    /\ a.sym = b.sym /\ a.rule = b.rule /\ a.dims = b.dims
    /\ Len(a.n) = Len(b.n) /\ Len(a.pct) = Len(b.pct)
    /\ IF a.rule /\ a.op = "LSTM"
       THEN b.op = "GRU" /\ 4 * b.n[1] = 3 * a.n[1]
       ELSE a.op = b.op /\ a.n = b.n

\* C9: the stacked-GRU cell is the stacked-LSTM cell with GRU for LSTM, and
\* the two printed tables have the same number of rows, the same data
\* dimensions and activation names row by row and the Dense count 165; they
\* differ only in the layer name, in the recurrent counts (GRU = 3/4 of
\* LSTM) and in the percentages.
C9_GRUDropIn ==
    /\ OwnStack("gru") = LSTMToGRU(OwnStack("lstm2"))
    /\ \A i, j \in Printed :
          (stdout[i].cell = "lstm2" /\ stdout[j].cell = "gru") =>
              LET a == stdout[i].table
                  b == stdout[j].table
              IN  /\ a.header = b.header /\ a.blank = b.blank
                  /\ Len(a.rows) = Len(b.rows)
                  /\ \A r \in DOMAIN a.rows : SameButLayer(a.rows[r], b.rows[r])
                  /\ Len(a.rows) = 7
                  /\ a.rows[6].op = "Dense" /\ a.rows[6].n = << 165 >>
                  /\ b.rows[6].op = "Dense" /\ b.rows[6].n = << 165 >>

\* Both the stacked-LSTM cell and the stacked-GRU cell have printed.
C9_Witness ==
    /\ \E i \in Printed : stdout[i].cell = "lstm2" /\ stdout[i].table = StackedLSTMOutput
    /\ \E j \in Printed : stdout[j].cell = "gru" /\ stdout[j].table = StackedGRUOutput

====
